---- MODULE Spec2Model ----
(***************************************************************************)
(* State-machine model of contracts/FHEPredictionMarket.sol.              *)
(*                                                                         *)
(* Ciphertexts are modelled as entries of a store `cts`: a handle is the   *)
(* index of its entry, the entry holds the plaintext the handle decrypts   *)
(* to and the access-control grants issued on it.  Handle 0 is the         *)
(* uninitialised handle (bytes32(0)) of a storage slot never written.      *)
(* A reverted transaction leaves the whole contract state unchanged.       *)
(***************************************************************************)
EXTENDS Integers, Sequences, FiniteSets

\* ------------------------------------------------------------------ bounds
MaxPredictions == 2
MaxBets == 2
\* accepted transactions in one run
MaxTx == 3
MaxSelection == 2
MaxTime == 1
\* width of the stake ciphertext (64 in the contract), scaled down
AmountBits == 2

MinOptions == 2
MaxOptions == 4
Uint8Mod == 256
Uint64Max == 2^AmountBits - 1

\* ------------------------------------------------------------------ inputs
Users == {"alice", "bob"}
Names == {"", "N"}
\* option lists at and around the two ends of the accepted range, all options
\* non-empty or with one empty option (the first or the last)
OptionLengths == {MinOptions - 1, MinOptions, MaxOptions, MaxOptions + 1}
OptionInputs ==
    UNION {{[i \in 1..n |-> "A"],
            [i \in 1..n |-> IF i = 1 THEN "" ELSE "A"],
            [i \in 1..n |-> IF i = n THEN "" ELSE "A"]} : n \in OptionLengths}
\* option indexes, the largest one past the end of the shortest option list
Selections == 0..MaxSelection
\* an external ciphertext with its proof: a selection with a valid proof, or a
\* forged input
ExternalInputs ==
    [sel : Selections, proofOk : {TRUE}] \cup {[sel |-> 0, proofOk |-> FALSE]}
StakeValues == {0, 1, Uint64Max, Uint64Max + 1}
Times == 1..MaxTime
IdSpace == 0..MaxPredictions

VARIABLES nextPredictionId, predictions, bets, predictionIds,
          cts, events, balance, result, trace

vars == <<nextPredictionId, predictions, bets, predictionIds,
          cts, events, balance, result, trace>>

contractState == <<nextPredictionId, predictions, bets, predictionIds,
                   cts, events, balance>>

\* ------------------------------------------------------- storage defaults
EmptyPrediction ==
    [name |-> "", options |-> <<>>, optionTotals |-> <<>>, encryptedPool |-> 0,
     creator |-> "none", createdAt |-> 0, exists |-> FALSE]

EmptyBetInfo == [encryptedAmount |-> 0, encryptedSelection |-> 0, exists |-> FALSE]

\* ------------------------------------------------- FHE library primitives
\* An environment is the ciphertext store plus the log of the primitive
\* operations of the running transaction.
NewCt(env, v, b, kind) ==
    [cts |-> Append(env.cts, [val |-> v, bits |-> b, self |-> FALSE,
                              pub |-> FALSE, allowed |-> {}]),
     log |-> Append(env.log, [op |-> kind, h |-> Len(env.cts) + 1])]

Last(env) == Len(env.cts)

Val(env, h) == IF h = 0 THEN 0 ELSE env.cts[h].val

FHE_asEuint64(env, v) == NewCt(env, v % (Uint64Max + 1), 64, "encode")

FHE_asEuint8(env, v) == NewCt(env, v % Uint8Mod, 8, "encode")

FHE_fromExternal(env, sel) == NewCt(env, sel % Uint8Mod, 8, "ingest")

\* mutant of FHE_add: the sum overwrites the accumulator (a lost update)
FHE_addOverwrite(env, a, b) == NewCt(env, Val(env, b), 64, "add")

\* mutant of FHE_add: the sum stops at the largest 64-bit value
FHE_addSaturating(env, a, b) ==
    NewCt(env,
          IF Val(env, a) + Val(env, b) > Uint64Max THEN Uint64Max
          ELSE Val(env, a) + Val(env, b),
          64, "add")

FHE_add(env, a, b) ==
    NewCt(env, (Val(env, a) + Val(env, b)) % (Uint64Max + 1), 64, "add")

FHE_eq(env, a, b) ==
    NewCt(env, IF Val(env, a) = Val(env, b) THEN 1 ELSE 0, 1, "equals")

FHE_select(env, c, a, b) ==
    NewCt(env, IF Val(env, c) = 1 THEN Val(env, a) ELSE Val(env, b), 64, "select")

FHE_allowThis(env, h) ==
    [cts |-> [env.cts EXCEPT ![h].self = TRUE],
     log |-> Append(env.log, [op |-> "grantSelf", h |-> h])]

FHE_makePubliclyDecryptable(env, h) ==
    [cts |-> [env.cts EXCEPT ![h].pub = TRUE],
     log |-> Append(env.log, [op |-> "grantPublic", h |-> h])]

\* mutant of FHE_allow: the grant is logged but not entered in the ACL
FHE_allowForgets(env, h, who) ==
    [cts |-> env.cts,
     log |-> Append(env.log, [op |-> "grantPrincipal", h |-> h])]

\* mutant of FHE_allow: the grant goes to every identity
FHE_allowEveryone(env, h, who) ==
    [cts |-> [env.cts EXCEPT ![h].allowed = Users],
     log |-> Append(env.log, [op |-> "grantPrincipal", h |-> h])]

FHE_allow(env, h, who) ==
    [cts |-> [env.cts EXCEPT ![h].allowed = @ \cup {who}],
     log |-> Append(env.log, [op |-> "grantPrincipal", h |-> h])]

\* mutant of TripleGrant: the public grant is left out
TripleGrantNoPublic(env, h, who) == FHE_allow(FHE_allowThis(env, h), h, who)

\* allowThis, makePubliclyDecryptable, allow(msg.sender) on one handle
TripleGrant(env, h, who) ==
    FHE_allow(FHE_makePubliclyDecryptable(FHE_allowThis(env, h), h), h, who)

\* what a handle decrypts to
Decrypt(h) == IF h = 0 THEN 0 ELSE cts[h].val

\* mutant of Reverted: the id counter bumped before the failing check survives
RevertedKeepsCounter(op, err, value) ==
    [nextPredictionId |-> nextPredictionId + 1, predictions |-> predictions,
     bets |-> bets, predictionIds |-> predictionIds, cts |-> cts,
     events |-> events, balance |-> balance, trace |-> <<>>,
     result |-> [op |-> op, error |-> err, ret |-> 0, value |-> value]]

\* mutant of Reverted: the failed call leaves a notification behind
RevertedButLogged(op, err, value) ==
    [nextPredictionId |-> nextPredictionId, predictions |-> predictions,
     bets |-> bets, predictionIds |-> predictionIds, cts |-> cts,
     events |-> Append(events,
         [type |-> "PredictionCreated", predictionId |-> 0, creator |-> "none",
          name |-> "", optionCount |-> 0]),
     balance |-> balance, trace |-> <<>>,
     result |-> [op |-> op, error |-> err, ret |-> 0, value |-> value]]

\* mutant of Reverted: the value attached to the failed call stays with the contract
RevertedKeepsValue(op, err, value) ==
    [nextPredictionId |-> nextPredictionId, predictions |-> predictions,
     bets |-> bets, predictionIds |-> predictionIds, cts |-> cts,
     events |-> events, balance |-> balance + value, trace |-> <<>>,
     result |-> [op |-> op, error |-> err, ret |-> 0, value |-> value]]

\* a revert undoes every effect of the transaction: the contract state is the
\* state before the call, and the caller gets the error
Reverted(op, err, value) ==
    [nextPredictionId |-> nextPredictionId, predictions |-> predictions,
     bets |-> bets, predictionIds |-> predictionIds, cts |-> cts,
     events |-> events, balance |-> balance, trace |-> <<>>,
     result |-> [op |-> op, error |-> err, ret |-> 0, value |-> value]]

\* ------------------------------------------------------- createPrediction
\* mutant of PostIncrement: the counter is read but not advanced
NoIncrement(id) == id

\* _nextPredictionId++
PostIncrement(id) == id + 1

\* mutant of createPredictionError: the lower limit of the option count is off by one
createPredictionErrorOneOption(name, options) ==
    IF name = "" THEN "EmptyName"
    ELSE IF Len(options) < MinOptions - 1 \/ Len(options) > MaxOptions
         THEN "InvalidOptionsCount"
    ELSE IF \E i \in 1..Len(options) : options[i] = "" THEN "EmptyOption"
    ELSE "ok"

\* mutant of createPredictionError: the options are not checked for emptiness
createPredictionErrorNoOptionCheck(name, options) ==
    IF name = "" THEN "EmptyName"
    ELSE IF Len(options) < MinOptions \/ Len(options) > MaxOptions THEN "InvalidOptionsCount"
    ELSE "ok"

\* mutant of createPredictionError: the option count is checked before the name
createPredictionErrorCountFirst(name, options) ==
    IF Len(options) < MinOptions \/ Len(options) > MaxOptions THEN "InvalidOptionsCount"
    ELSE IF name = "" THEN "EmptyName"
    ELSE IF \E i \in 1..Len(options) : options[i] = "" THEN "EmptyOption"
    ELSE "ok"

\* the validation of createPrediction, in the order of the code
createPredictionError(name, options) ==
    IF name = "" THEN "EmptyName"
    ELSE IF Len(options) < MinOptions \/ Len(options) > MaxOptions THEN "InvalidOptionsCount"
    ELSE IF \E i \in 1..Len(options) : options[i] = "" THEN "EmptyOption"
    ELSE "ok"

\* mutant of CreateTotals: the option totals get no grant for the creator
RECURSIVE CreateTotalsNoCreatorGrant(_, _, _, _)
CreateTotalsNoCreatorGrant(env, n, who, totals) ==
    IF Len(totals) >= n THEN [env |-> env, totals |-> totals]
    ELSE LET e1 == FHE_asEuint64(env, 0)
             optionTotal == Last(e1)
             e2 == FHE_makePubliclyDecryptable(FHE_allowThis(e1, optionTotal),
                                               optionTotal)
         IN CreateTotalsNoCreatorGrant(e2, n, who, Append(totals, optionTotal))

\* mutant of CreateTotals: no option total is initialised
CreateTotalsNone(env, n, who, totals) == [env |-> env, totals |-> totals]

\* the loop initialising one encrypted zero per option
RECURSIVE CreateTotals(_, _, _, _)
CreateTotals(env, n, who, totals) ==
    IF Len(totals) >= n THEN [env |-> env, totals |-> totals]
    ELSE LET e1 == FHE_asEuint64(env, 0)
             optionTotal == Last(e1)
             e2 == TripleGrant(e1, optionTotal, who)
         IN CreateTotals(e2, n, who, Append(totals, optionTotal))

\* the state after a call of createPrediction
createPredictionPost(caller, name, options, timestamp) ==
    LET err == createPredictionError(name, options)
        predictionId == nextPredictionId
        e1 == FHE_asEuint64([cts |-> cts, log |-> <<>>], 0)
        zeroValue == Last(e1)
        e2 == TripleGrant(e1, zeroValue, caller)
        loop == CreateTotals(e2, Len(options), caller, <<>>)
    IN IF err # "ok"
       THEN Reverted("createPrediction", err, 0)
       ELSE [nextPredictionId |-> PostIncrement(nextPredictionId),
             predictions |-> [predictions EXCEPT ![predictionId] =
                 [name |-> name, options |-> options,
                  optionTotals |-> loop.totals, encryptedPool |-> zeroValue,
                  creator |-> caller, createdAt |-> timestamp, exists |-> TRUE]],
             bets |-> bets,
             predictionIds |-> Append(predictionIds, predictionId),
             cts |-> loop.env.cts,
             events |-> Append(events,
                 [type |-> "PredictionCreated", predictionId |-> predictionId,
                  creator |-> caller, name |-> name, optionCount |-> Len(options)]),
             balance |-> balance,
             trace |-> loop.env.log,
             result |-> [op |-> "createPrediction", error |-> "ok",
                         ret |-> predictionId, value |-> 0]]

\* ------------------------------------------------------ placeEncryptedBet
\* mutant of placeEncryptedBetError: no check for an existing bet
placeEncryptedBetErrorNoDuplicateCheck(caller, predictionId, value, proofOk) ==
    IF ~predictions[predictionId].exists THEN "InvalidPrediction"
    ELSE IF Len(predictions[predictionId].optionTotals) = 0 THEN "InvalidOptionsCount"
    ELSE IF value = 0 \/ value > Uint64Max THEN "InvalidBetAmount"
    ELSE IF ~proofOk THEN "ProofInvalid"
    ELSE "ok"

\* mutant of placeEncryptedBetError: a zero stake is not rejected
placeEncryptedBetErrorZeroAllowed(caller, predictionId, value, proofOk) ==
    IF ~predictions[predictionId].exists THEN "InvalidPrediction"
    ELSE IF Len(predictions[predictionId].optionTotals) = 0 THEN "InvalidOptionsCount"
    ELSE IF value > Uint64Max THEN "InvalidBetAmount"
    ELSE IF bets[predictionId][caller].exists THEN "BetAlreadyPlaced"
    ELSE IF ~proofOk THEN "ProofInvalid"
    ELSE "ok"

\* mutant of placeEncryptedBetError: no upper limit on the attached stake
placeEncryptedBetErrorNoUpperLimit(caller, predictionId, value, proofOk) ==
    IF ~predictions[predictionId].exists THEN "InvalidPrediction"
    ELSE IF Len(predictions[predictionId].optionTotals) = 0 THEN "InvalidOptionsCount"
    ELSE IF value = 0 THEN "InvalidBetAmount"
    ELSE IF bets[predictionId][caller].exists THEN "BetAlreadyPlaced"
    ELSE IF ~proofOk THEN "ProofInvalid"
    ELSE "ok"

\* mutant of placeEncryptedBetError: the existing bet is checked before the stake
placeEncryptedBetErrorDuplicateFirst(caller, predictionId, value, proofOk) ==
    IF ~predictions[predictionId].exists THEN "InvalidPrediction"
    ELSE IF Len(predictions[predictionId].optionTotals) = 0 THEN "InvalidOptionsCount"
    ELSE IF bets[predictionId][caller].exists THEN "BetAlreadyPlaced"
    ELSE IF value = 0 \/ value > Uint64Max THEN "InvalidBetAmount"
    ELSE IF ~proofOk THEN "ProofInvalid"
    ELSE "ok"

\* mutant of placeEncryptedBetError: one bet per identity over all predictions
placeEncryptedBetErrorOneBetPerUser(caller, predictionId, value, proofOk) ==
    IF ~predictions[predictionId].exists THEN "InvalidPrediction"
    ELSE IF Len(predictions[predictionId].optionTotals) = 0 THEN "InvalidOptionsCount"
    ELSE IF value = 0 \/ value > Uint64Max THEN "InvalidBetAmount"
    ELSE IF \E id \in IdSpace : bets[id][caller].exists THEN "BetAlreadyPlaced"
    ELSE IF ~proofOk THEN "ProofInvalid"
    ELSE "ok"

\* the validation of placeEncryptedBet, in the order of the code; the proof is
\* checked by FHE.fromExternal, after the checks of the contract
placeEncryptedBetError(caller, predictionId, value, proofOk) ==
    IF ~predictions[predictionId].exists THEN "InvalidPrediction"
    ELSE IF Len(predictions[predictionId].optionTotals) = 0 THEN "InvalidOptionsCount"
    ELSE IF value = 0 \/ value > Uint64Max THEN "InvalidBetAmount"
    ELSE IF bets[predictionId][caller].exists THEN "BetAlreadyPlaced"
    ELSE IF ~proofOk THEN "ProofInvalid"
    ELSE "ok"

\* mutant of Aggregate: branches on the selection and updates the chosen option only
RECURSIVE AggregateBranching(_, _, _, _, _, _, _)
AggregateBranching(env, i, totals, selection, encryptedAmount, zeroAddition, who) ==
    IF i >= Len(totals) THEN [env |-> env, totals |-> totals]
    ELSE IF Val(env, selection) # i
         THEN AggregateBranching(env, i + 1, totals, selection, encryptedAmount,
                                 zeroAddition, who)
    ELSE LET e4 == FHE_add(env, totals[i + 1], encryptedAmount)
             newTotal == Last(e4)
             e5 == TripleGrant(e4, newTotal, who)
         IN AggregateBranching(e5, i + 1, [totals EXCEPT ![i + 1] = newTotal],
                               selection, encryptedAmount, zeroAddition, who)

\* mutant of Aggregate: the decrypt grants are issued on the selected addition,
\* before the sum that is stored has been computed
RECURSIVE AggregateGrantsAddition(_, _, _, _, _, _, _)
AggregateGrantsAddition(env, i, totals, selection, encryptedAmount, zeroAddition, who) ==
    IF i >= Len(totals) THEN [env |-> env, totals |-> totals]
    ELSE LET e1 == FHE_asEuint8(env, i % Uint8Mod)
             e2 == FHE_eq(e1, selection, Last(e1))
             matchesOption == Last(e2)
             e3 == FHE_select(e2, matchesOption, encryptedAmount, zeroAddition)
             addition == Last(e3)
             e4 == TripleGrant(e3, addition, who)
             e5 == FHE_add(e4, totals[i + 1], addition)
             newTotal == Last(e5)
         IN AggregateGrantsAddition(e5, i + 1, [totals EXCEPT ![i + 1] = newTotal],
                                    selection, encryptedAmount, zeroAddition, who)

\* the oblivious aggregation loop over every option
RECURSIVE Aggregate(_, _, _, _, _, _, _)
Aggregate(env, i, totals, selection, encryptedAmount, zeroAddition, who) ==
    IF i >= Len(totals) THEN [env |-> env, totals |-> totals]
    ELSE LET e1 == FHE_asEuint8(env, i % Uint8Mod)
             e2 == FHE_eq(e1, selection, Last(e1))
             matchesOption == Last(e2)
             e3 == FHE_select(e2, matchesOption, encryptedAmount, zeroAddition)
             addition == Last(e3)
             e4 == FHE_add(e3, totals[i + 1], addition)
             newTotal == Last(e4)
             e5 == TripleGrant(e4, newTotal, who)
         IN Aggregate(e5, i + 1, [totals EXCEPT ![i + 1] = newTotal],
                      selection, encryptedAmount, zeroAddition, who)

\* the encrypted computation of an accepted bet
BetOutcome(caller, predictionId, value, sel) ==
    LET prediction == predictions[predictionId]
        e1 == FHE_fromExternal([cts |-> cts, log |-> <<>>], sel)
        selection == Last(e1)
        e2 == FHE_allow(FHE_allowThis(e1, selection), selection, caller)
        e3 == FHE_asEuint64(e2, value % (Uint64Max + 1))
        encryptedAmount == Last(e3)
        e4 == FHE_allow(FHE_allowThis(e3, encryptedAmount), encryptedAmount, caller)
        e5 == FHE_add(e4, prediction.encryptedPool, encryptedAmount)
        pool == Last(e5)
        e6 == TripleGrant(e5, pool, caller)
        e7 == FHE_asEuint64(e6, 0)
        zeroAddition == Last(e7)
        e8 == FHE_allowThis(e7, zeroAddition)
        loop == Aggregate(e8, 0, prediction.optionTotals, selection,
                          encryptedAmount, zeroAddition, caller)
    IN [env |-> loop.env, totals |-> loop.totals, pool |-> pool,
        selection |-> selection, encryptedAmount |-> encryptedAmount,
        zeroAddition |-> zeroAddition]

\* the state after a call of placeEncryptedBet
placeEncryptedBetPost(caller, predictionId, value, sel, proofOk) ==
    LET err == placeEncryptedBetError(caller, predictionId, value, proofOk)
        out == BetOutcome(caller, predictionId, value, sel)
    IN IF err # "ok"
       THEN Reverted("placeEncryptedBet", err, value)
       ELSE [nextPredictionId |-> nextPredictionId,
             predictions |-> [predictions EXCEPT
                 ![predictionId].encryptedPool = out.pool,
                 ![predictionId].optionTotals = out.totals],
             bets |-> [bets EXCEPT ![predictionId][caller] =
                 [encryptedAmount |-> out.encryptedAmount,
                  encryptedSelection |-> out.selection, exists |-> TRUE]],
             predictionIds |-> predictionIds,
             cts |-> out.env.cts,
             events |-> Append(events,
                 [type |-> "BetPlaced", predictionId |-> predictionId,
                  user |-> caller, encryptedAmount |-> out.encryptedAmount,
                  encryptedSelection |-> out.selection, clearAmount |-> value]),
             balance |-> balance + value,
             trace |-> out.env.log,
             result |-> [op |-> "placeEncryptedBet", error |-> "ok", ret |-> 0,
                         value |-> value]]

\* ---------------------------------------------------------- read accessors
getPredictionCountOf(ids) == Len(ids)

getPredictionCount == getPredictionCountOf(predictionIds)

SummaryOf(ps, id) ==
    [id |-> id, name |-> ps[id].name, options |-> ps[id].options,
     creator |-> ps[id].creator, createdAt |-> ps[id].createdAt]

Summary(id) == SummaryOf(predictions, id)

BlankSummary == [id |-> 0, name |-> "", options |-> <<>>, creator |-> "none", createdAt |-> 0]

\* mutant of listPredictionsOf: the newest prediction comes first
listPredictionsOfNewestFirst(ps, ids) ==
    [i \in 1..Len(ids) |->
        IF ~ps[ids[Len(ids) + 1 - i]].exists THEN BlankSummary
        ELSE SummaryOf(ps, ids[Len(ids) + 1 - i])]

listPredictionsOf(ps, ids) ==
    [i \in 1..Len(ids) |->
        IF ~ps[ids[i]].exists THEN BlankSummary ELSE SummaryOf(ps, ids[i])]

listPredictions == listPredictionsOf(predictions, predictionIds)

getPredictionMetadata(id) ==
    IF ~predictions[id].exists THEN [error |-> "InvalidPrediction"]
    ELSE [error |-> "ok", summary |-> Summary(id)]

\* mutant of getEncryptedTotals: the existence check is left out
getEncryptedTotalsUnchecked(id) ==
    [error |-> "ok", totals |-> predictions[id].optionTotals,
     pool |-> predictions[id].encryptedPool]

getEncryptedTotals(id) ==
    IF ~predictions[id].exists THEN [error |-> "InvalidPrediction"]
    ELSE [error |-> "ok", totals |-> predictions[id].optionTotals,
          pool |-> predictions[id].encryptedPool]

\* mutant of getUserBet: a missing bet is treated like a missing prediction
getUserBetStrict(id, user) ==
    IF ~predictions[id].exists \/ ~bets[id][user].exists
    THEN [error |-> "InvalidPrediction"]
    ELSE [error |-> "ok", encryptedAmount |-> bets[id][user].encryptedAmount,
          encryptedSelection |-> bets[id][user].encryptedSelection,
          hasBet |-> bets[id][user].exists]

getUserBet(id, user) ==
    IF ~predictions[id].exists THEN [error |-> "InvalidPrediction"]
    ELSE [error |-> "ok", encryptedAmount |-> bets[id][user].encryptedAmount,
          encryptedSelection |-> bets[id][user].encryptedSelection,
          hasBet |-> bets[id][user].exists]

\* ------------------------------------------------------------ the machine
Init ==
    /\ nextPredictionId = 1
    /\ predictions = [id \in IdSpace |-> EmptyPrediction]
    /\ bets = [id \in IdSpace |-> [u \in Users |-> EmptyBetInfo]]
    /\ predictionIds = <<>>
    /\ cts = <<>>
    /\ events = <<>>
    /\ balance = 0
    /\ result = [op |-> "none", error |-> "ok", ret |-> 0, value |-> 0]
    /\ trace = <<>>

Apply(post) ==
    /\ nextPredictionId' = post.nextPredictionId
    /\ predictions' = post.predictions
    /\ bets' = post.bets
    /\ predictionIds' = post.predictionIds
    /\ cts' = post.cts
    /\ events' = post.events
    /\ balance' = post.balance
    /\ trace' = post.trace
    /\ result' = post.result

NumBets == Cardinality({i \in 1..Len(events) : events[i].type = "BetPlaced"})

\* block.timestamp never decreases from one block to the next
LastCreatedAt ==
    IF predictionIds = <<>> THEN 0
    ELSE predictions[predictionIds[Len(predictionIds)]].createdAt

createPrediction(caller, name, options, timestamp) ==
    /\ timestamp >= LastCreatedAt
    /\ createPredictionError(name, options) = "ok"
           => nextPredictionId <= MaxPredictions /\ Len(events) < MaxTx
    /\ Apply(createPredictionPost(caller, name, options, timestamp))

placeEncryptedBet(caller, predictionId, value, ext) ==
    /\ placeEncryptedBetError(caller, predictionId, value, ext.proofOk) = "ok"
           => NumBets < MaxBets /\ Len(events) < MaxTx
    /\ Apply(placeEncryptedBetPost(caller, predictionId, value, ext.sel, ext.proofOk))

Next ==
    \/ \E caller \in Users, name \in Names, options \in OptionInputs,
          timestamp \in Times :
           createPrediction(caller, name, options, timestamp)
    \/ \E caller \in Users, predictionId \in IdSpace, value \in StakeValues,
          ext \in ExternalInputs :
           placeEncryptedBet(caller, predictionId, value, ext)

Spec == Init /\ [][Next]_vars

\* ------------------------------------------------------------ observations
ExistingIds == {id \in IdSpace : predictions[id].exists}

RECURSIVE SumSeq(_)
SumSeq(q) == IF q = <<>> THEN 0 ELSE Head(q) + SumSeq(Tail(q))

DecryptedPool(id) == Decrypt(predictions[id].encryptedPool)

DecryptedTotals(id) ==
    [i \in 1..Len(predictions[id].optionTotals) |->
        Decrypt(predictions[id].optionTotals[i])]

\* the positions in the event log of the accepted bets on a prediction
BetEventsOn(id) ==
    {k \in 1..Len(events) :
        events[k].type = "BetPlaced" /\ events[k].predictionId = id}

\* those of the bets whose recorded selection decrypts to option index i
BetEventsSelecting(id, i) ==
    {k \in BetEventsOn(id) :
        Decrypt(bets[id][events[k].user].encryptedSelection) = i}

\* the exact (unbounded) sum of the stakes attached to a set of accepted bets
RECURSIVE SumStakes(_)
SumStakes(ks) ==
    IF ks = {} THEN 0
    ELSE LET k == CHOOSE x \in ks : TRUE
         IN events[k].clearAmount + SumStakes(ks \ {k})

AcceptedBet(caller, id, value) ==
    placeEncryptedBetError(caller, id, value, TRUE) = "ok"

LastIsAcceptedBet == result.op = "placeEncryptedBet" /\ result.error = "ok"

\* ------------------------------------------------------------------- C1
\* C1: for every prediction, the decrypted pool equals the sum of the decrypted
\* optionTotals entries, in every reachable state.
PoolEqualsSumOfTotals ==
    \A id \in ExistingIds : DecryptedPool(id) = SumSeq(DecryptedTotals(id))

\* ------------------------------------------------------------------- C2
\* C2: for every prediction and option index i, the decrypted optionTotals[i]
\* equals the exact sum of the stakes of the recorded bets whose decrypted
\* selection is i.
TotalsEqualStakesOfSelectingBets ==
    \A id \in ExistingIds :
        \A i \in 0..(Len(predictions[id].optionTotals) - 1) :
            DecryptedTotals(id)[i + 1] = SumStakes(BetEventsSelecting(id, i))

\* ------------------------------------------------------------------- C3
\* C3: the decrypted pool of a prediction equals the exact, unbounded sum of the
\* stakes of all accepted bets on it.
PoolIsExactSumOfStakes ==
    \A id \in ExistingIds : DecryptedPool(id) = SumStakes(BetEventsOn(id))

\* ------------------------------------------------------------------- C4
\* what a principal can decrypt of a ciphertext store: the value of every handle
\* that is publicly decryptable or granted to the principal
View(store, who) ==
    [h \in 1..Len(store) |->
        IF store[h].pub \/ who \in store[h].allowed THEN store[h].val ELSE -1]

\* C4: the selection of a bet is hidden from everyone but the bettor: two runs
\* that differ only in the selection index of one accepted bet show the same
\* decryptable values to every other principal (here: right after that bet).
SelectionHiddenFromOthers ==
    \A caller \in Users, id \in IdSpace, value \in StakeValues :
        AcceptedBet(caller, id, value) =>
            LET outs == [s \in Selections |-> BetOutcome(caller, id, value, s)]
            IN \A s1 \in Selections, s2 \in Selections :
                  \A other \in (Users \ {caller}) \cup {"public"} :
                      View(outs[s1].env.cts, other) = View(outs[s2].env.cts, other)

\* ------------------------------------------------------------------- C5
Kinds(log) == [k \in 1..Len(log) |-> log[k].op]

CountOp(log, kind) == Cardinality({k \in 1..Len(log) : log[k].op = kind})

\* the primitive operations of an accepted bet before the loop over the options:
\* the selection, the stake, the pool, the zero operand
BetPrefixKinds ==
    <<"ingest", "grantSelf", "grantPrincipal",
      "encode", "grantSelf", "grantPrincipal",
      "add", "grantSelf", "grantPublic", "grantPrincipal",
      "encode", "grantSelf">>

\* the primitive operations spent on one option
PerOptionKinds ==
    <<"encode", "equals", "select", "add", "grantSelf", "grantPublic", "grantPrincipal">>

RECURSIVE Repeat(_, _)
Repeat(q, n) == IF n = 0 THEN <<>> ELSE q \o Repeat(q, n - 1)

\* the positions of the log at which handle h is produced by an add
AddsProducing(log, h) == {k \in 1..Len(log) : log[k] = [op |-> "add", h |-> h]}

\* C5: oblivious update: the primitive operations of an accepted bet are the same
\* sequence of kinds whatever the selection (a function of the option count
\* alone), so two bets that differ only in the selected index invoke the same
\* operations in the same order; and every option total of the prediction is
\* replaced exactly once, by its own add.
ObliviousUpdate ==
    LastIsAcceptedBet =>
        LET id == events[Len(events)].predictionId
            n == Len(predictions[id].options)
            totals == predictions[id].optionTotals
        IN /\ Kinds(trace) = BetPrefixKinds \o Repeat(PerOptionKinds, n)
           /\ Len(totals) = n
           /\ \A i \in 1..n : Cardinality(AddsProducing(trace, totals[i])) = 1
           /\ \A i \in 1..n, j \in 1..n : i # j => totals[i] # totals[j]

\* an accepted bet whose selection is past the last option has been aggregated
ObliviousUpdateWitness ==
    /\ LastIsAcceptedBet
    /\ LET id == events[Len(events)].predictionId
       IN /\ Decrypt(bets[id][events[Len(events)].user].encryptedSelection)
                 >= Len(predictions[id].options)
          /\ CountOp(trace, "select") = Len(predictions[id].options)

\* ------------------------------------------------------------------- C6
\* C6: atomicity on error: a createPrediction or placeEncryptedBet call that
\* fails with any error leaves the whole engine state as it was: id counter,
\* prediction records, pool and optionTotals handles, bet records, ciphertexts
\* and their grants, held value and emitted notifications.
AtomicOnError == [][result'.error # "ok" => UNCHANGED contractState]_vars

\* a bet failed on its proof in a state that already holds a prediction and a bet
AtomicOnErrorWitness ==
    /\ result.op = "placeEncryptedBet"
    /\ result.error = "ProofInvalid"
    /\ balance > 0

\* ------------------------------------------------------------------- C7
BetInputs == Users \X IdSpace \X StakeValues \X ExternalInputs

\* the state after a bet call with input x = <<caller, id, value, ext>>
BetPost(x) == placeEncryptedBetPost(x[1], x[2], x[3], x[4].sel, x[4].proofOk)

LeavesTotalsAndBets(post) ==
    /\ post.predictions = predictions
    /\ post.bets = bets
    /\ post.cts = cts

AtMostOneBetPerPair ==
    \A id \in IdSpace, u \in Users :
        LET placed == {k \in BetEventsOn(id) : events[k].user = u}
        IN /\ Cardinality(placed) <= 1
           /\ bets[id][u].exists <=> placed # {}

\* C7 as stated: once an identity has a bet on a prediction, every later bet by
\* it on that prediction, whatever its stake, selection and proof, fails with
\* BetAlreadyPlaced and leaves pool, totals and the stored bet unchanged.
SecondBetAlwaysBetAlreadyPlaced ==
    \A x \in BetInputs :
        bets[x[2]][x[1]].exists =>
            /\ BetPost(x).result.error = "BetAlreadyPlaced"
            /\ LeavesTotalsAndBets(BetPost(x))

\* C7 amended: such a later bet always fails and changes nothing; the error is
\* InvalidBetAmount when its stake is zero or above the 64-bit maximum, and
\* BetAlreadyPlaced otherwise; each (prediction, identity) pair has at most one
\* bet.
SecondBetAlwaysRejected ==
    /\ \A x \in BetInputs :
          bets[x[2]][x[1]].exists =>
              /\ BetPost(x).result.error =
                    (IF x[3] = 0 \/ x[3] > Uint64Max THEN "InvalidBetAmount"
                     ELSE "BetAlreadyPlaced")
              /\ LeavesTotalsAndBets(BetPost(x))
    /\ AtMostOneBetPerPair

\* a second bet has been rejected with BetAlreadyPlaced
SecondBetRejectedWitness ==
    /\ result.op = "placeEncryptedBet"
    /\ result.error = "BetAlreadyPlaced"
    /\ \E id \in ExistingIds, u \in Users : bets[id][u].exists

\* ------------------------------------------------------------------- C8
MutatesNothing(post) ==
    /\ post.nextPredictionId = nextPredictionId
    /\ post.predictions = predictions
    /\ post.bets = bets
    /\ post.predictionIds = predictionIds
    /\ post.cts = cts
    /\ post.events = events
    /\ post.balance = balance

\* C8 as stated: a bet with zero stake fails with InvalidBetAmount in every state
\* and for every predictionId, caller, selection and proof, and mutates nothing.
ZeroStakeAlwaysInvalidBetAmount ==
    \A x \in BetInputs :
        x[3] = 0 =>
            /\ BetPost(x).result.error = "InvalidBetAmount"
            /\ MutatesNothing(BetPost(x))

\* C8 amended: a bet with zero stake always fails and mutates nothing; the error
\* is InvalidBetAmount for every existing prediction, and InvalidPrediction for
\* an id that was never created.
ZeroStakeAlwaysRejected ==
    \A x \in BetInputs :
        x[3] = 0 =>
            /\ BetPost(x).result.error =
                  (IF x[2] \in 1..getPredictionCount THEN "InvalidBetAmount"
                   ELSE "InvalidPrediction")
            /\ MutatesNothing(BetPost(x))

\* a bet with zero stake on an existing prediction has been rejected
ZeroStakeRejectedWitness ==
    /\ result.op = "placeEncryptedBet"
    /\ result.value = 0
    /\ result.error = "InvalidBetAmount"
    /\ ExistingIds # {}

\* ------------------------------------------------------------------- C9
CreateInputs == Users \X Names \X OptionInputs \X Times

\* the state after a create call with input x = <<caller, name, options, time>>
CreatePost(x) == createPredictionPost(x[1], x[2], x[3], x[4])

BadCount(options) == Len(options) < 2 \/ Len(options) > 4

HasEmptyOption(options) == \E i \in 1..Len(options) : options[i] = ""

ReadersUnchanged(post) ==
    /\ getPredictionCountOf(post.predictionIds) = getPredictionCount
    /\ listPredictionsOf(post.predictions, post.predictionIds) = listPredictions

\* C9 as stated: fewer than 2 or more than 4 options fail with
\* InvalidOptionsCount, an empty name with EmptyName, any empty option with
\* EmptyOption, and the count and the list of predictions are unchanged.
EachDefectHasItsError ==
    \A x \in CreateInputs :
        /\ BadCount(x[3]) => CreatePost(x).result.error = "InvalidOptionsCount"
        /\ x[2] = "" => CreatePost(x).result.error = "EmptyName"
        /\ HasEmptyOption(x[3]) => CreatePost(x).result.error = "EmptyOption"
        /\ (BadCount(x[3]) \/ x[2] = "" \/ HasEmptyOption(x[3])) =>
              ReadersUnchanged(CreatePost(x))

\* C9 amended: a call with any of the three defects fails and leaves the count
\* and the list unchanged; the error is that of the first defect in the order
\* name, option count, options: EmptyName for an empty name; InvalidOptionsCount
\* for a non-empty name with fewer than 2 or more than 4 options; EmptyOption
\* for a non-empty name, 2 to 4 options and an empty option.
FirstDefectHasItsError ==
    \A x \in CreateInputs :
        /\ x[2] = "" => CreatePost(x).result.error = "EmptyName"
        /\ (x[2] # "" /\ BadCount(x[3])) =>
              CreatePost(x).result.error = "InvalidOptionsCount"
        /\ (x[2] # "" /\ ~BadCount(x[3]) /\ HasEmptyOption(x[3])) =>
              CreatePost(x).result.error = "EmptyOption"
        /\ (BadCount(x[3]) \/ x[2] = "" \/ HasEmptyOption(x[3])) =>
              ReadersUnchanged(CreatePost(x))

\* a creation has been rejected for its option count while a prediction exists
FirstDefectWitness ==
    /\ result.op = "createPrediction"
    /\ result.error = "InvalidOptionsCount"
    /\ getPredictionCount = 1
    /\ Len(listPredictions) = 1

\* ------------------------------------------------------------------ C10
CreatedEvents == SelectSeq(events, LAMBDA e : e.type = "PredictionCreated")

\* C10: ids are assigned sequentially from 1 with no gaps and no reuse: the k-th
\* successful createPrediction returns id k, a failed one consumes no id, and
\* getPredictionCount() is the number of successful creations and the largest
\* assigned id.
SequentialIds ==
    /\ predictionIds = [k \in 1..Len(predictionIds) |-> k]
    /\ ExistingIds = 1..getPredictionCount
    /\ nextPredictionId = getPredictionCount + 1
    /\ Len(CreatedEvents) = getPredictionCount
    /\ \A k \in 1..Len(CreatedEvents) : CreatedEvents[k].predictionId = k
    /\ (result.op = "createPrediction" /\ result.error = "ok")
          => result.ret = getPredictionCount
    /\ \A x \in CreateInputs :
          CreatePost(x).result.error # "ok" =>
              /\ CreatePost(x).nextPredictionId = nextPredictionId
              /\ CreatePost(x).predictionIds = predictionIds

\* the second successful creation has returned id 2
SequentialIdsWitness ==
    /\ result.op = "createPrediction"
    /\ result.error = "ok"
    /\ result.ret = 2
    /\ getPredictionCount = 2

\* ------------------------------------------------------------------ C11
\* what a handle decrypts to in the state after a call
DecryptIn(post, h) == IF h = 0 THEN 0 ELSE post.cts[h].val

\* C11: an accepted bet by u on p with stake v and an in-range selection s is
\* recorded (exists, handles decrypting to v and s), grows the decrypted pool by
\* v, grows the decrypted optionTotals[s] by v and leaves every other decrypted
\* optionTotals entry unchanged.
AcceptedBetGrowsPoolAndSelectedTotal ==
    \A x \in BetInputs :
        LET post == BetPost(x)
            u == x[1]
            p == x[2]
            v == x[3]
            s == x[4].sel
            n == Len(predictions[p].options)
        IN (post.result.error = "ok" /\ s < n) =>
              /\ post.bets[p][u].exists
              /\ DecryptIn(post, post.bets[p][u].encryptedAmount) = v
              /\ DecryptIn(post, post.bets[p][u].encryptedSelection) = s
              /\ DecryptIn(post, post.predictions[p].encryptedPool)
                    = DecryptedPool(p) + v
              /\ \A i \in 0..(n - 1) :
                    DecryptIn(post, post.predictions[p].optionTotals[i + 1])
                        = DecryptedTotals(p)[i + 1] + (IF i = s THEN v ELSE 0)

\* ------------------------------------------------------------------ C12
\* the engine's 64-bit sum of the stakes of a set of accepted bets
EngineSum(ks) == SumStakes(ks) % (Uint64Max + 1)

\* the decrypted pool and totals are a function of the set of recorded bets,
\* whatever the order in which they were placed
TotalsDependOnBetSetOnly ==
    \A id \in ExistingIds :
        /\ DecryptedPool(id) = EngineSum(BetEventsOn(id))
        /\ \A i \in 0..(Len(predictions[id].optionTotals) - 1) :
              DecryptedTotals(id)[i + 1] = EngineSum(BetEventsSelecting(id, i))

\* an accepted bet of one identity leaves the bets of every other identity as
\* acceptable as they were
OtherBettorsStayAccepted ==
    \A id \in IdSpace, u \in Users, v \in StakeValues :
        (/\ LastIsAcceptedBet'
         /\ events' # events
         /\ events'[Len(events')].user # u
         /\ AcceptedBet(u, id, v))
            => AcceptedBet(u, id, v)'

\* C12: serialization independence: two bets by two different identities on the
\* same prediction are accepted in either order, and both orders lead to the
\* same decrypted pool and optionTotals, in which both stakes are accumulated.
SerializationIndependence ==
    [](TotalsDependOnBetSetOnly) /\ [][OtherBettorsStayAccepted]_vars

\* bob then alice have bet on the same prediction, on different options
SerializationIndependenceWitness ==
    \E id \in ExistingIds :
        /\ Cardinality(BetEventsOn(id)) = 2
        /\ events[Len(events)].user = "alice"
        /\ events[Len(events) - 1].user = "bob"
        /\ Decrypt(bets[id]["alice"].encryptedSelection)
              # Decrypt(bets[id]["bob"].encryptedSelection)
        /\ Decrypt(bets[id]["alice"].encryptedAmount)
              # Decrypt(bets[id]["bob"].encryptedAmount)

\* ------------------------------------------------------------------ C13
HasSelfGrant(h) == h # 0 /\ cts[h].self

HasPublicGrant(h) == h # 0 /\ cts[h].pub

HasPrincipalGrant(h, who) == h # 0 /\ who \in cts[h].allowed

\* the pool handle and the option total handles of a prediction
TotalsHandles(id) ==
    {predictions[id].encryptedPool}
        \cup {predictions[id].optionTotals[i] :
                 i \in 1..Len(predictions[id].optionTotals)}

LastIsCreation == result.op = "createPrediction" /\ result.error = "ok"

\* C13: right after a successful createPrediction the pool and every
\* optionTotals entry of the new prediction decrypt to 0 and carry the self
\* grant, the public grant and the principal grant to the creator.
FreshTotalsAreGrantedZeros ==
    LastIsCreation =>
        LET id == result.ret
        IN /\ predictions[id].exists
           /\ Len(predictions[id].optionTotals) = Len(predictions[id].options)
           /\ \A h \in TotalsHandles(id) :
                 /\ Decrypt(h) = 0
                 /\ HasSelfGrant(h)
                 /\ HasPublicGrant(h)
                 /\ HasPrincipalGrant(h, predictions[id].creator)
           /\ predictions[id].creator = events[Len(events)].creator

\* bob has just created a second prediction, with the largest option count
FreshTotalsWitness ==
    /\ LastIsCreation
    /\ result.ret = 2
    /\ predictions[2].creator = "bob"
    /\ Cardinality(TotalsHandles(2)) = MaxOptions + 1

\* ------------------------------------------------------------------ C14
\* the handles the last transaction produced with a homomorphic addition
AddedInTrace == {trace[k].h : k \in {j \in 1..Len(trace) : trace[j].op = "add"}}

\* C14: after every accepted placeEncryptedBet the newly stored pool handle and
\* every newly stored optionTotals handle, selected or not, carry the self
\* grant, the public grant and a principal grant to the caller of that bet.
RegrantOnEveryNewTotal ==
    LastIsAcceptedBet =>
        LET e == events[Len(events)]
        IN /\ e.type = "BetPlaced"
           /\ Cardinality(TotalsHandles(e.predictionId))
                 = Len(predictions[e.predictionId].options) + 1
           /\ \A h \in TotalsHandles(e.predictionId) :
                 /\ h \in AddedInTrace
                 /\ HasSelfGrant(h)
                 /\ HasPublicGrant(h)
                 /\ HasPrincipalGrant(h, e.user)

\* bob has just bet on a prediction created by alice that already held a bet
RegrantWitness ==
    /\ LastIsAcceptedBet
    /\ events[Len(events)].user = "bob"
    /\ predictions[events[Len(events)].predictionId].creator = "alice"
    /\ Cardinality(BetEventsOn(events[Len(events)].predictionId)) = 2
    /\ Len(predictions[events[Len(events)].predictionId].options) = MaxOptions

\* ------------------------------------------------------------------ C15
\* C15: in every reachable state, for every prediction, the creator holds a
\* principal decrypt grant on the currently stored pool handle and on every
\* currently stored optionTotals handle, also after bets by other identities.
CreatorHoldsGrantOnTotals ==
    \A id \in ExistingIds :
        \A h \in TotalsHandles(id) :
            HasPrincipalGrant(h, predictions[id].creator)

\* ------------------------------------------------------------------ C16
\* the handles getEncryptedTotals returns for a prediction
ReturnedTotals(id) ==
    LET r == getEncryptedTotals(id)
    IN {r.pool} \cup {r.totals[i] : i \in 1..Len(r.totals)}

TotalsReturnedWithGrants ==
    \A id \in ExistingIds :
        /\ getEncryptedTotals(id).error = "ok"
        /\ \A h \in ReturnedTotals(id) : HasSelfGrant(h) /\ HasPublicGrant(h)

UserBetReturnedWithGrants(id, u) ==
    LET r == getUserBet(id, u)
    IN /\ r.error = "ok"
       /\ \A h \in {r.encryptedAmount, r.encryptedSelection} :
             HasSelfGrant(h) /\ HasPrincipalGrant(h, u)

\* C16 as stated: in every reachable state every handle returned by
\* getEncryptedTotals carries the self grant and the public grant, and every
\* handle returned by getUserBet(p, u) carries the self grant and a principal
\* grant to u.
EveryReturnedHandleIsGranted ==
    /\ TotalsReturnedWithGrants
    /\ \A id \in ExistingIds : \A u \in Users : UserBetReturnedWithGrants(id, u)

\* C16 amended: the same, for getUserBet(p, u) of an identity u that has an
\* accepted bet on p; without a bet the returned handles are the zero handle,
\* which carries no grant.
EveryStoredHandleIsGranted ==
    /\ TotalsReturnedWithGrants
    /\ \A id \in ExistingIds : \A u \in Users :
          getUserBet(id, u).hasBet => UserBetReturnedWithGrants(id, u)

\* alice and bob both hold a bet on a prediction whose totals were replaced
EveryStoredHandleWitness ==
    \E id \in ExistingIds :
        /\ \A u \in Users : getUserBet(id, u).hasBet
        /\ \A h \in ReturnedTotals(id) : h \in AddedInTrace

\* ------------------------------------------------------------------ C17
Producers == {"encode", "ingest", "add", "equals", "select"}

\* the positions of the last transaction at which handle h was produced
ProducedAt(h) ==
    {j \in 1..Len(trace) : trace[j].op \in Producers /\ trace[j].h = h}

ProducedBy(kinds) ==
    {trace[j].h : j \in {k \in 1..Len(trace) : trace[k].op \in kinds}}

\* the positions at which a public or principal decrypt grant was issued
DecryptGrantSteps ==
    {k \in 1..Len(trace) : trace[k].op \in {"grantPublic", "grantPrincipal"}}

\* every handle held in contract storage
StoredHandles ==
    UNION {TotalsHandles(id) : id \in ExistingIds}
        \cup UNION {{bets[id][u].encryptedAmount, bets[id][u].encryptedSelection} :
                       id \in IdSpace, u \in Users}

\* the ciphertexts the last transaction produced and did not store
Intermediates == ProducedBy(Producers) \ StoredHandles

\* the encoded indexes, equality results, selected additions and zero operand
AggregationTemporaries ==
    ProducedBy({"equals", "select"})
        \cup {h \in ProducedBy({"encode"}) : cts[h].bits = 8 \/ cts[h].val = 0}

\* C17: within one successful placeEncryptedBet or createPrediction, a public
\* or principal grant is issued on a ciphertext only after the operation that
\* produced it and only on a handle that is then stored; the intermediates of
\* the aggregation (encoded index, equality result, selected addition, zero
\* operand) never receive a public or principal grant.
GrantsOnlyOnFinalStoredValues ==
    result.error = "ok" =>
        /\ \A k \in DecryptGrantSteps :
              /\ \E j \in ProducedAt(trace[k].h) : j < k
              /\ \A j \in ProducedAt(trace[k].h) : j < k
              /\ trace[k].h \in StoredHandles
        /\ \A h \in Intermediates : ~cts[h].pub /\ cts[h].allowed = {}
        /\ LastIsAcceptedBet =>
              /\ AggregationTemporaries = Intermediates
              /\ Cardinality(Intermediates)
                    = 1 + 3 * Len(predictions[events[Len(events)].predictionId].options)
        /\ LastIsCreation => Intermediates = {}

\* a bet on a prediction with the largest option count has just been accepted
GrantsOnlyOnFinalWitness ==
    /\ LastIsAcceptedBet
    /\ Cardinality(ProducedBy({"select"})) = MaxOptions
    /\ Cardinality(DecryptGrantSteps) = 2 + 2 + 2 * MaxOptions

\* ------------------------------------------------------------------ C18
\* the identities with an accepted bet on a prediction
Bettors(id) == {events[k].user : k \in BetEventsOn(id)}

\* C18: for every existing prediction p and every identity u without an
\* accepted bet on p, getUserBet(p, u) raises no error and returns
\* exists = false with the zero amount handle and the zero selection handle.
NoBetReadsAsEmptyTriple ==
    \A id \in ExistingIds : \A u \in Users \ Bettors(id) :
        getUserBet(id, u) =
            [error |-> "ok", encryptedAmount |-> 0, encryptedSelection |-> 0,
             hasBet |-> FALSE]

\* bob has bet on a prediction and alice has not
NoBetReadsAsEmptyWitness ==
    \E id \in ExistingIds :
        /\ Bettors(id) = {"bob"}
        /\ getUserBet(id, "bob").hasBet
        /\ ~getUserBet(id, "alice").hasBet

\* ------------------------------------------------------------------ C19
\* the ids assigned by a successful createPrediction
AssignedIds ==
    {events[k].predictionId :
        k \in {j \in 1..Len(events) : events[j].type = "PredictionCreated"}}

InvalidPredictionIff(error, id) ==
    (error = "InvalidPrediction") <=> (id \notin AssignedIds)

\* C19: getPredictionMetadata, getEncryptedTotals, getUserBet and
\* placeEncryptedBet fail with InvalidPrediction exactly when the id was never
\* assigned by a successful createPrediction (id = 0 or id > getPredictionCount),
\* and the three readers succeed for every id in 1..getPredictionCount.
InvalidPredictionExactlyWhenUnassigned ==
    /\ AssignedIds = 1..getPredictionCount
    /\ \A id \in IdSpace :
          /\ InvalidPredictionIff(getPredictionMetadata(id).error, id)
          /\ InvalidPredictionIff(getEncryptedTotals(id).error, id)
          /\ \A u \in Users :
                /\ InvalidPredictionIff(getUserBet(id, u).error, id)
                /\ \A v \in StakeValues : \A ok \in BOOLEAN :
                      InvalidPredictionIff(placeEncryptedBetError(u, id, v, ok), id)
          /\ id \in 1..getPredictionCount =>
                /\ getPredictionMetadata(id).error = "ok"
                /\ getEncryptedTotals(id).error = "ok"
                /\ \A u \in Users : getUserBet(id, u).error = "ok"

\* one prediction exists, ids 0 and 2 do not, and a bet on a missing id has
\* just been refused
InvalidPredictionWitness ==
    /\ getPredictionCount = 1
    /\ result.op = "placeEncryptedBet"
    /\ result.error = "InvalidPrediction"
    /\ getEncryptedTotals(0).error = "InvalidPrediction"
    /\ getEncryptedTotals(1).error = "ok"
    /\ getEncryptedTotals(2).error = "InvalidPrediction"

\* ------------------------------------------------------------------ C20
\* the list has one entry per created prediction, entry i is the summary of
\* id i as getPredictionMetadata returns it, and no entry is blank
ListMatchesMetadata ==
    /\ Len(listPredictions) = getPredictionCount
    /\ Len(CreatedEvents) = getPredictionCount
    /\ \A i \in 1..getPredictionCount :
          /\ listPredictions[i].id = i
          /\ getPredictionMetadata(i).error = "ok"
          /\ listPredictions[i] = getPredictionMetadata(i).summary
          /\ listPredictions[i] # BlankSummary
          /\ listPredictions[i].name = CreatedEvents[i].name
          /\ listPredictions[i].creator = CreatedEvents[i].creator
          /\ Len(listPredictions[i].options) = CreatedEvents[i].optionCount

\* a successful creation appends the summary made of its own arguments
CreationAppendsItsArguments ==
    \A x \in CreateInputs :
        LET post == CreatePost(x)
        IN (post.result.error = "ok" /\ nextPredictionId \in IdSpace) =>
              listPredictionsOf(post.predictions, post.predictionIds)
                  = Append(listPredictions,
                           [id |-> getPredictionCount + 1, name |-> x[2],
                            options |-> x[3], creator |-> x[1],
                            createdAt |-> x[4]])

\* the list changes by a successful creation only, which extends it by one
ListOnlyGrowsByCreation ==
    listPredictions' # listPredictions =>
        /\ LastIsCreation'
        /\ Len(listPredictions') = Len(listPredictions) + 1
        /\ \A i \in 1..Len(listPredictions) :
              listPredictions'[i] = listPredictions[i]

\* C20: in every reachable state listPredictions() returns exactly
\* getPredictionCount() summaries, in creation order with ids 1, 2, ..., n,
\* each equal to what getPredictionMetadata returns for that id (name, options,
\* creator, createdAt as given at creation), and never a blank entry.
ListIsTheCreationHistory ==
    /\ [](ListMatchesMetadata /\ CreationAppendsItsArguments)
    /\ [][ListOnlyGrowsByCreation]_vars

\* two predictions by different creators, the first of which holds a bet
ListIsTheCreationHistoryWitness ==
    /\ getPredictionCount = 2
    /\ listPredictions[1].creator # listPredictions[2].creator
    /\ Len(listPredictions[1].options) # Len(listPredictions[2].options)
    /\ BetEventsOn(1) # {}

\* ------------------------------------------------------------------ C21
\* what getUserBet reports for a recorded bet is the same after the step
BetRecordKept ==
    \A id \in IdSpace : \A u \in Users :
        (getUserBet(id, u).error = "ok" /\ getUserBet(id, u).hasBet)
            => getUserBet(id, u)' = getUserBet(id, u)

\* C21: a bet record is write-once: once getUserBet(p, u) reports exists = true
\* it does so in every later state, with the same amount handle and the same
\* selection handle, whatever operations by u or by others follow.
BetRecordIsWriteOnce == [][BetRecordKept]_vars

\* after a first bet on a prediction another identity has bet on it too, and a
\* repeated bet has just been refused
BetRecordIsWriteOnceWitness ==
    \E id \in ExistingIds :
        /\ Cardinality(BetEventsOn(id)) = 2
        /\ \A u \in Users : getUserBet(id, u).hasBet
        /\ getUserBet(id, "alice").encryptedAmount
               < getUserBet(id, "bob").encryptedAmount
        /\ result.op = "placeEncryptedBet"
        /\ result.error = "BetAlreadyPlaced"

\* ------------------------------------------------------------------ C22
\* the step is an accepted bet on prediction id
AcceptedBetOnStep(id) ==
    /\ LastIsAcceptedBet'
    /\ Len(events') = Len(events) + 1
    /\ events'[Len(events')].type = "BetPlaced"
    /\ events'[Len(events')].predictionId = id

MetadataKept ==
    \A id \in ExistingIds :
        /\ getPredictionMetadata(id).error = "ok"
        /\ getPredictionMetadata(id)' = getPredictionMetadata(id)
        /\ predictions'[id].exists
        /\ getEncryptedTotals(id)' # getEncryptedTotals(id)
              => AcceptedBetOnStep(id)

\* C22: once created, a prediction is never deleted and its name, options,
\* creator and createdAt never change, whatever createPrediction and
\* placeEncryptedBet calls follow; only its pool and optionTotals handles
\* change, and only through an accepted bet on that id.
MetadataIsImmutable == [][MetadataKept]_vars

\* the first prediction has taken a bet and a second prediction was created
\* after it
MetadataIsImmutableWitness ==
    /\ getPredictionCount = 2
    /\ BetEventsOn(1) # {}
    /\ LastIsCreation
    /\ getPredictionMetadata(1).summary.name = "N"
    /\ predictions[1].encryptedPool > 1

\* ------------------------------------------------------------------ C23
\* C23: in every reachable state, for every existing prediction, the length of
\* optionTotals equals the length of options and lies between 2 and 4, every
\* option string and the name are non-empty, and getEncryptedTotals returns a
\* sequence of exactly that length.
PredictionsAreWellFormed ==
    \A id \in ExistingIds :
        LET p == predictions[id]
        IN /\ Len(p.optionTotals) = Len(p.options)
           /\ Len(p.options) >= MinOptions
           /\ Len(p.options) <= MaxOptions
           /\ \A i \in 1..Len(p.options) : p.options[i] # ""
           /\ p.name # ""
           /\ getEncryptedTotals(id).error = "ok"
           /\ Len(getEncryptedTotals(id).totals) = Len(p.options)
           /\ \A i \in 1..Len(p.options) : getEncryptedTotals(id).totals[i] # 0

\* one prediction with the fewest and one with the most options, after a bet
PredictionsAreWellFormedWitness ==
    /\ \E id \in ExistingIds : Len(predictions[id].options) = MinOptions
    /\ \E id \in ExistingIds :
          /\ Len(predictions[id].options) = MaxOptions
          /\ BetEventsOn(id) # {}

\* ------------------------------------------------------------------ C24
\* the calls of placeEncryptedBet as far as its validation looks at them
BetChecks == Users \X IdSpace \X StakeValues \X BOOLEAN

BetCheck(x) == placeEncryptedBetError(x[1], x[2], x[3], x[4])

\* every stake in 1..2^64-1 is accepted on an existing prediction without a
\* bet of the caller when the proof is valid
StakesInRangeAccepted ==
    \A x \in BetChecks :
        (/\ x[3] >= 1
         /\ x[3] <= Uint64Max
         /\ x[2] \in ExistingIds
         /\ ~getUserBet(x[2], x[1]).hasBet
         /\ x[4]) => BetCheck(x) = "ok"

\* the amount ciphertext stored by the bet just accepted decrypts to its stake
StoredAmountIsTheStake ==
    LastIsAcceptedBet =>
        LET e == events[Len(events)]
            b == bets[e.predictionId][e.user]
        IN /\ b.exists
           /\ result.value >= 1
           /\ result.value <= Uint64Max
           /\ e.clearAmount = result.value
           /\ b.encryptedAmount = e.encryptedAmount
           /\ cts[b.encryptedAmount].bits = 64
           /\ Decrypt(b.encryptedAmount) = result.value

\* C24 as stated: every stake above 2^64-1 is rejected with InvalidBetAmount,
\* every stake in 1..2^64-1 is accepted given an existing prediction, no prior
\* bet and a valid proof, and the stored amount decrypts to the attached stake.
OversizedStakeAlwaysInvalidBetAmount ==
    /\ \A x \in BetChecks : x[3] > Uint64Max => BetCheck(x) = "InvalidBetAmount"
    /\ StakesInRangeAccepted
    /\ StoredAmountIsTheStake

\* C24 amended: a stake above 2^64-1 is rejected with InvalidBetAmount on every
\* existing prediction and with InvalidPrediction on an id never created; the
\* rest as stated.
OversizedStakeAlwaysRejected ==
    /\ \A x \in BetChecks :
          x[3] > Uint64Max =>
              BetCheck(x) = (IF x[2] \in 1..getPredictionCount
                             THEN "InvalidBetAmount" ELSE "InvalidPrediction")
    /\ (result.op = "placeEncryptedBet" /\ result.value > Uint64Max)
          => result.error \in {"InvalidBetAmount", "InvalidPrediction"}
    /\ StakesInRangeAccepted
    /\ StoredAmountIsTheStake

\* a bet of exactly 2^64-1 is recorded, and a bet of 2^64 has just been refused
OversizedStakeWitness ==
    /\ result.op = "placeEncryptedBet"
    /\ result.value = Uint64Max + 1
    /\ result.error = "InvalidBetAmount"
    /\ \E k \in 1..Len(events) :
          /\ events[k].type = "BetPlaced"
          /\ events[k].clearAmount = Uint64Max
          /\ Decrypt(events[k].encryptedAmount) = Uint64Max

\* ------------------------------------------------------------------ C25
\* the step appended exactly one notification
OneMoreEvent ==
    /\ Len(events') = Len(events) + 1
    /\ \A k \in 1..Len(events) : events'[k] = events[k]

\* the bet records the step changed
BetRecordsChanged ==
    {x \in IdSpace \X Users : bets'[x[1]][x[2]] # bets[x[1]][x[2]]}

EmitsOnSuccessOnly ==
    /\ result'.error # "ok" => events' = events
    /\ (result'.op = "createPrediction" /\ result'.error = "ok") =>
          LET e == events'[Len(events')]
          IN /\ OneMoreEvent
             /\ e.type = "PredictionCreated"
             /\ e.predictionId = result'.ret
             /\ ~predictions[e.predictionId].exists
             /\ e.creator = predictions'[e.predictionId].creator
             /\ e.name = predictions'[e.predictionId].name
             /\ e.optionCount = Len(predictions'[e.predictionId].options)
    /\ (result'.op = "placeEncryptedBet" /\ result'.error = "ok") =>
          LET e == events'[Len(events')]
          IN /\ OneMoreEvent
             /\ e.type = "BetPlaced"
             /\ BetRecordsChanged = {<<e.predictionId, e.user>>}
             /\ bets'[e.predictionId][e.user] =
                   [encryptedAmount |-> e.encryptedAmount,
                    encryptedSelection |-> e.encryptedSelection, exists |-> TRUE]
             /\ e.encryptedAmount # 0
             /\ e.encryptedSelection # 0
             /\ e.clearAmount = result'.value
             /\ balance' = balance + e.clearAmount

\* the creation notification carries the arguments and the caller of the call
CreationEventCarriesItsCall ==
    \A x \in CreateInputs :
        LET post == CreatePost(x)
        IN IF post.result.error # "ok" THEN post.events = events
           ELSE post.events =
                   Append(events,
                          [type |-> "PredictionCreated",
                           predictionId |-> post.result.ret, creator |-> x[1],
                           name |-> x[2], optionCount |-> Len(x[3])])

\* C25: every successful createPrediction emits exactly one creation
\* notification whose id is the returned id, whose creator is the caller and
\* whose option count is the stored options length; every accepted
\* placeEncryptedBet emits exactly one placed notification whose amount and
\* selection handles are those of the caller's bet record and whose plain stake
\* is the attached stake; failed calls emit nothing.
NotificationsMatchCalls ==
    /\ [](CreationEventCarriesItsCall)
    /\ [][EmitsOnSuccessOnly]_vars

\* a creation, an accepted bet and then a failed call: two notifications
NotificationsMatchCallsWitness ==
    /\ Len(events) = 2
    /\ events[1].type = "PredictionCreated"
    /\ events[2].type = "BetPlaced"
    /\ events[2].clearAmount = Uint64Max
    /\ result.error # "ok"

\* ------------------------------------------------------------------ C26
\* the errors of the conditions a create call violates, in the order EmptyName,
\* InvalidOptionsCount, EmptyOption
CreateDefects(name, options) ==
    (IF name = "" THEN <<"EmptyName">> ELSE <<>>)
        \o (IF BadCount(options) THEN <<"InvalidOptionsCount">> ELSE <<>>)
        \o (IF HasEmptyOption(options) THEN <<"EmptyOption">> ELSE <<>>)

FirstOf(errors) == IF errors = <<>> THEN "ok" ELSE Head(errors)

\* C26: createPrediction checks its arguments in a fixed order and reports the
\* first failure only: EmptyName before InvalidOptionsCount before EmptyOption;
\* an empty name with one option fails with EmptyName, five options of which
\* one is empty fail with InvalidOptionsCount.
CreateReportsFirstFailure ==
    /\ \A x \in CreateInputs :
          CreatePost(x).result.error = FirstOf(CreateDefects(x[2], x[3]))
    /\ \A u \in Users : \A t \in Times :
          /\ createPredictionPost(u, "", <<"A">>, t).result.error = "EmptyName"
          /\ createPredictionPost(u, "N", <<"A", "A", "A", "A", "">>, t).result.error
                = "InvalidOptionsCount"
          /\ createPredictionPost(u, "", <<"", "A", "A", "A", "A">>, t).result.error
                = "EmptyName"
    /\ (result.op = "createPrediction" /\ result.error # "ok") =>
          /\ result.error \in {"EmptyName", "InvalidOptionsCount", "EmptyOption"}
          /\ result.ret = 0

\* inputs with two and with three defects are among the calls, and a call has
\* just failed with EmptyName
CreateReportsFirstFailureWitness ==
    /\ \E x \in CreateInputs : Len(CreateDefects(x[2], x[3])) = 3
    /\ \E x \in CreateInputs :
          CreateDefects(x[2], x[3]) = <<"InvalidOptionsCount", "EmptyOption">>
    /\ result.op = "createPrediction"
    /\ result.error = "EmptyName"
    /\ getPredictionCount = 1

\* ------------------------------------------------------------------ C27
\* the errors of the conditions a bet call violates, in the order
\* InvalidPrediction, InvalidBetAmount, BetAlreadyPlaced, ProofInvalid
BetDefects(caller, id, value, proofOk) ==
    (IF id \notin AssignedIds THEN <<"InvalidPrediction">> ELSE <<>>)
        \o (IF value = 0 \/ value > Uint64Max THEN <<"InvalidBetAmount">> ELSE <<>>)
        \o (IF caller \in Bettors(id) THEN <<"BetAlreadyPlaced">> ELSE <<>>)
        \o (IF ~proofOk THEN <<"ProofInvalid">> ELSE <<>>)

\* C27: placeEncryptedBet checks in the order InvalidPrediction,
\* InvalidBetAmount, BetAlreadyPlaced, proof validity, and a call that violates
\* several conditions fails with the earliest one: a repeat bettor with a zero
\* or oversized stake gets InvalidBetAmount, a repeat bettor with an invalid
\* proof gets BetAlreadyPlaced.
BetReportsFirstFailure ==
    /\ \A x \in BetChecks :
          /\ BetCheck(x) = FirstOf(BetDefects(x[1], x[2], x[3], x[4]))
          /\ (x[1] \in Bettors(x[2]) /\ (x[3] = 0 \/ x[3] > Uint64Max))
                => BetCheck(x) = "InvalidBetAmount"
          /\ (x[1] \in Bettors(x[2]) /\ x[3] >= 1 /\ x[3] <= Uint64Max /\ ~x[4])
                => BetCheck(x) = "BetAlreadyPlaced"
    /\ (result.op = "placeEncryptedBet" /\ result.error # "ok") =>
          result.error \in {"InvalidPrediction", "InvalidBetAmount",
                            "BetAlreadyPlaced", "ProofInvalid"}

\* every identity holds a bet on the only prediction, and a repeated bet with
\* an oversized stake has just failed with InvalidBetAmount
BetReportsFirstFailureWitness ==
    /\ getPredictionCount = 1
    /\ Bettors(1) = Users
    /\ result.op = "placeEncryptedBet"
    /\ result.value > Uint64Max
    /\ result.error = "InvalidBetAmount"
    /\ \E x \in BetChecks : Len(BetDefects(x[1], x[2], x[3], x[4])) = 3

\* ------------------------------------------------------------------ C28
\* C28: in no reachable state does placeEncryptedBet fail with
\* InvalidOptionsCount, because every existing prediction has a non-empty
\* optionTotals sequence.
DefensiveCheckUnreachable ==
    /\ \A id \in ExistingIds : Len(predictions[id].optionTotals) > 0
    /\ \A x \in BetChecks : BetCheck(x) # "InvalidOptionsCount"
    /\ result.op = "placeEncryptedBet" => result.error # "InvalidOptionsCount"

\* two predictions exist, one bet was accepted, and another bet on an existing
\* prediction got past the defensive check and was refused for its proof
DefensiveCheckWitness ==
    /\ getPredictionCount = 2
    /\ NumBets = 1
    /\ result.op = "placeEncryptedBet"
    /\ result.error = "ProofInvalid"

\* ------------------------------------------------------------------ C29
\* an accepted bet on p changes no total and no bet record of another
\* prediction; a successful creation changes none of an existing prediction
OtherPredictionsUntouched ==
    /\ \A p \in IdSpace :
          AcceptedBetOnStep(p) =>
              \A q \in IdSpace \ {p} :
                  /\ predictions'[q] = predictions[q]
                  /\ bets'[q] = bets[q]
    /\ LastIsCreation' /\ Len(events') = Len(events) + 1 =>
          /\ bets' = bets
          /\ \A q \in ExistingIds : predictions'[q] = predictions[q]

\* a bet on one prediction does not stand in the way of a bet of the same
\* identity on another one
BetElsewhereStillAccepted ==
    \A u \in Users : \A p \in ExistingIds : \A q \in ExistingIds \ {p} :
        (u \in Bettors(p) /\ u \notin Bettors(q)) =>
            \A v \in 1..Uint64Max : AcceptedBet(u, q, v)

\* C29: an accepted placeEncryptedBet on prediction p leaves the pool handle,
\* the optionTotals handles and all bet records of every other prediction
\* unchanged and does not prevent the same identity from betting on another
\* prediction; a successful createPrediction leaves all totals and bet records
\* of existing predictions unchanged.
PredictionsAreIsolated ==
    /\ [](BetElsewhereStillAccepted)
    /\ [][OtherPredictionsUntouched]_vars

\* two predictions exist and alice has just bet on the second one only
PredictionsAreIsolatedWitness ==
    /\ getPredictionCount = 2
    /\ LastIsAcceptedBet
    /\ Bettors(2) = {"alice"}
    /\ Bettors(1) = {}
    /\ AcceptedBet("alice", 1, 1)
    /\ predictions[1].encryptedPool = 1

\* ------------------------------------------------------------------ C30
\* the step is an accepted bet on p whose selection decrypts to no option of p:
\* it is recorded, the pool grows by the stake and no option total changes
OutOfRangeBetStep ==
    \A p \in IdSpace :
        (AcceptedBetOnStep(p)
           /\ cts'[events'[Len(events')].encryptedSelection].val
                 >= Len(predictions[p].options)) =>
            LET e == events'[Len(events')]
            IN /\ bets'[p][e.user].exists
               /\ DecryptedPool(p)' = DecryptedPool(p) + e.clearAmount
               /\ DecryptedTotals(p)' = DecryptedTotals(p)

\* C30: a bet whose proof is valid and whose decrypted selection is greater
\* than or equal to the option count is accepted, is recorded with
\* exists = true, increases the decrypted pool by the stake and leaves every
\* decrypted optionTotals entry unchanged.
OutOfRangeBetGrowsPoolOnly == [][OutOfRangeBetStep]_vars

\* ------------------------------------------------------------------ C31
\* the pool and every option total are the sums of the stakes modulo 2^64
TotalsAreSumsModulo ==
    \A id \in ExistingIds :
        /\ DecryptedPool(id) = SumStakes(BetEventsOn(id)) % (Uint64Max + 1)
        /\ \A i \in 0..(Len(predictions[id].optionTotals) - 1) :
              DecryptedTotals(id)[i + 1]
                  = SumStakes(BetEventsSelecting(id, i)) % (Uint64Max + 1)

\* no guard: a stake that takes the pool past 2^64-1 is accepted all the same
OverflowingStakeAccepted ==
    \A id \in ExistingIds : \A u \in Users \ Bettors(id) :
        \A v \in 1..Uint64Max :
            SumStakes(BetEventsOn(id)) + v > Uint64Max => AcceptedBet(u, id, v)

\* C31: totals are accumulated with 64-bit wrapping addition and no overflow
\* guard: the decrypted pool equals the sum of all accepted stakes on the
\* prediction mod 2^64, each decrypted optionTotals[i] the sum of the stakes of
\* the bets selecting i mod 2^64, and a bet whose stake would push a total past
\* 2^64-1 is still accepted.
WrappingAccumulation ==
    /\ TotalsAreSumsModulo
    /\ OverflowingStakeAccepted

\* two accepted bets on the same option whose stakes add up to more than 2^64-1
WrappingAccumulationWitness ==
    \E id \in ExistingIds : \E i \in 0..(Len(predictions[id].options) - 1) :
        /\ LastIsAcceptedBet
        /\ Cardinality(BetEventsSelecting(id, i)) = 2
        /\ SumStakes(BetEventsSelecting(id, i)) > Uint64Max
        /\ DecryptedTotals(id)[i + 1] = SumStakes(BetEventsOn(id)) - (Uint64Max + 1)

\* ------------------------------------------------------------------ C32
\* the accepted bets on all predictions
AllBetEvents == {k \in 1..Len(events) : events[k].type = "BetPlaced"}

\* the value held is the exact sum of the stakes of all accepted bets
ValueHeldIsSumOfStakes == balance = SumStakes(AllBetEvents)

\* no step decreases the value held, and a failed call adds nothing to it
ValueNeverLeaves ==
    /\ balance' >= balance
    /\ result'.error # "ok" => balance' = balance
    /\ balance' # balance =>
          /\ LastIsAcceptedBet'
          /\ balance' = balance + result'.value

\* C32: in every reachable state the value held equals the exact sum of the
\* stakes of all accepted bets over all predictions, no operation ever
\* decreases it, and a failed bet adds nothing to it.
ValueHeldNeverReleased ==
    /\ [](ValueHeldIsSumOfStakes)
    /\ [][ValueNeverLeaves]_vars

\* the stakes held exceed what a 64-bit total can show, and a bet with a stake
\* attached has just failed
ValueHeldWitness ==
    /\ balance > Uint64Max
    /\ Cardinality(AllBetEvents) = 2
    /\ result.op = "placeEncryptedBet"
    /\ result.error # "ok"
    /\ result.value > 0

\* ------------------------------------------------------------------ C33
\* the recorded bets, as <<prediction, identity>>
RecordedBets == {x \in IdSpace \X Users : bets[x[1]][x[2]].exists}

BetHandles(x) ==
    {bets[x[1]][x[2]].encryptedAmount, bets[x[1]][x[2]].encryptedSelection}

\* the handles of u's bet carry the self grant and the grant to u, and no other
BetHandlesGrantedToBettorOnly ==
    \A x \in RecordedBets : \A h \in BetHandles(x) :
        /\ HasSelfGrant(h)
        /\ HasPrincipalGrant(h, x[2])
        /\ ~HasPublicGrant(h)
        /\ cts[h].allowed = {x[2]}

\* no step changes the grants of the handles of a recorded bet
BetHandleGrantsKept ==
    \A x \in RecordedBets : \A h \in BetHandles(x) : cts'[h] = cts[h]

====
